---- MODULE Spec2Model ----
(***************************************************************************)
(* State-machine model of manage_loadavg_check.py                          *)
(* (FMOSLoadAvgCheckManager and main).                                     *)
(*                                                                         *)
(* Durable state lives outside the process: the remote configuration       *)
(* (os/health, os/backup/auto-backup, os/backup/post-backup), the user's   *)
(* crontab and the credential file.  One run of the program is one of the  *)
(* six subcommands; the outcome of every HTTP request and of every crontab *)
(* subprocess is an input chosen by the environment.                       *)
(***************************************************************************)
EXTENDS Integers, Sequences, FiniteSets, TLC

\* ------------------------------------------------------------------ bounds
\* longest ignore_checks list the remote side holds initially
MaxList == 2
\* program invocations in one behaviour
MaxRuns == 2

\* --------------------------------------------------------------- constants
check_name == "fmos.health.checks.basic.LoadAvgCheck"
OtherCheck == "fmos.health.checks.basic.DiskCheck"
CheckIds == {check_name, OtherCheck}

DefaultHour == 23
DefaultMinute == 48
DefaultPreHour == 23
DefaultPreMinute == 43
PreBackupOffset == 5
LastHour == 23
MinutesPerHour == 60

\* dict.get(key, default): the key is not in the payload
Absent == -1

\* ------------------------------------------------------- sequence helpers
SeqsUpTo(S, n) == UNION {[1..k -> S] : k \in 0..n}

InSeq(x, s) == \E i \in 1..Len(s) : s[i] = x

Count(x, s) == Cardinality({i \in 1..Len(s) : s[i] = x})

\* list.remove(x): removes the FIRST occurrence only
ListRemove(s, x) ==
    IF ~InSeq(x, s) THEN s
    ELSE LET i == CHOOSE k \in 1..Len(s) :
                    s[k] = x /\ \A j \in 1..(k - 1) : s[j] # x
         IN SubSeq(s, 1, i - 1) \o SubSeq(s, i + 1, Len(s))

\* ------------------------------------------------------- remote payloads
\* os/health: {"health": {"ignore_checks": [...], <other keys>}}.
\* extra stands for the content of every other key (0: there is none).
HealthCfg(extra, hasIgn, ignore) ==
    [extra |-> extra, hasIgn |-> hasIgn, ignore |-> ignore]

\* what api_config_get returns on failure ({}), replaced by {"health": {}}
EmptyHealth == HealthCfg(0, FALSE, <<>>)

\* os/backup/auto-backup: empty is {}, otherwise auto_backup.{hour,minute,schedule}
BackupCfg(empty, hour, minute, schedule) ==
    [empty |-> empty, hour |-> hour, minute |-> minute, schedule |-> schedule]

EmptyBackup == BackupCfg(TRUE, Absent, Absent, "absent")

\* ------------------------------------------------------------ API requests
Req(req, cat, ok) == [req |-> req, cat |-> cat, ok |-> ok]

needs_login(envCreds, creds) == envCreds \/ creds = "valid"

\* api_login: environment variables first, then the stored file; with no
\* credentials at all it returns True without sending a request.
api_login(envCreds, creds, ok) ==
    IF needs_login(envCreds, creds)
    THEN [log |-> <<Req("login", "-", ok)>>, ok |-> ok]
    ELSE [log |-> <<>>, ok |-> TRUE]

\* api_config_get: the parsed body on success, {} on any failure
api_config_get(remote, empty, ok) == IF ok THEN remote ELSE empty

\* ------------------------------------------------------ schedule calculator
PreMinuteMutant(minute) == minute - PreBackupOffset

PreMinute(minute) ==
    IF minute - PreBackupOffset < 0
    THEN MinutesPerHour + (minute - PreBackupOffset)
    ELSE minute - PreBackupOffset

PreHour(hour, minute) ==
    IF minute - PreBackupOffset < 0
    THEN (IF hour - 1 < 0 THEN LastHour ELSE hour - 1)
    ELSE hour

Schedule(hour, minute, pre_hour, pre_minute, schedule) ==
    [hour |-> hour, minute |-> minute, pre_hour |-> pre_hour,
     pre_minute |-> pre_minute, schedule |-> schedule]

\* get_backup_schedule applied to the payload api_config_get returned
get_backup_schedule(cfg) ==
    IF cfg.empty
    THEN Schedule(DefaultHour, DefaultMinute, DefaultPreHour, DefaultPreMinute, "daily")
    ELSE LET hour == IF cfg.hour = Absent THEN DefaultHour ELSE cfg.hour
             minute == IF cfg.minute = Absent THEN DefaultMinute ELSE cfg.minute
             schedule == IF cfg.schedule = "absent" THEN "daily" ELSE cfg.schedule
         IN Schedule(hour, minute, PreHour(hour, minute), PreMinute(minute), schedule)

NoSchedule == Schedule(Absent, Absent, Absent, Absent, "none")

\* ------------------------------------------------------------------ crontab
\* A crontab line.  own: the line contains the script path and 'disable'.
\* tag of an own line: "num" (>= 5 fields, integer minute and hour),
\* "short" (< 5 fields), "bad" (>= 5 fields whose first two are not both
\* integers, e.g. "*/5" or a leading '#'); tag of another line: its text.
CronLine(own, tag, minute, hour) ==
    [own |-> own, tag |-> tag, minute |-> minute, hour |-> hour]

OwnLine(minute, hour) == CronLine(TRUE, "num", minute, hour)
OtherLine(text) == CronLine(FALSE, text, Absent, Absent)
BadLine == CronLine(TRUE, "bad", Absent, Absent)
ShortLine == CronLine(TRUE, "short", Absent, Absent)

NoEntry == CronLine(FALSE, "none", Absent, Absent)

Matching(cron) == SelectSeq(cron, LAMBDA l : l.own)
NotMatching(cron) == SelectSeq(cron, LAMBDA l : ~l.own)

\* get_current_cron_entry: first matching line, None when the listing fails
get_current_cron_entry(cron, listOk) ==
    IF listOk /\ Matching(cron) # <<>> THEN Head(Matching(cron)) ELSE NoEntry


\* setup_cronjob (install).  o.getB: its own backup-schedule fetch;
\* o.list: 'crontab -l' ("ok", "nonzero" exit, or "raise");
\* o.write: 'crontab -' ("ok", "nonzero" exit, "raise", "none": not run).
\* subprocess.run is called without check=True: a non-zero exit raises
\* nothing, so the write is taken as done.
setup_cronjob(cron, bcfg, o) ==
    LET schedule == get_backup_schedule(api_config_get(bcfg, EmptyBackup, o.getB))
        getLog == <<Req("get", "os/backup/auto-backup", o.getB)>>
        cron_entry == OwnLine(schedule.pre_minute, schedule.pre_hour)
        existing_cron == IF o.list = "ok" THEN cron ELSE <<>>
        new_cron_lines == Append(NotMatching(existing_cron), cron_entry)
    IN IF o.list = "raise"
       THEN [cron |-> cron, log |-> getLog, writes |-> 0, ok |-> FALSE,
             schedule |-> schedule]
       ELSE [cron |-> IF o.write = "ok" THEN new_cron_lines ELSE cron,
             log |-> getLog, writes |-> 1, ok |-> o.write # "raise",
             schedule |-> schedule]

InstallOracles ==
    {[getB |-> g, list |-> l, write |-> w] :
        g \in BOOLEAN, l \in {"ok", "nonzero"}, w \in {"ok", "nonzero", "raise"}}
    \cup {[getB |-> g, list |-> "raise", write |-> "none"] : g \in BOOLEAN}

NoInstall == [getB |-> TRUE, list |-> "none", write |-> "none"]

\* the entry's timing differs from the computed pre-backup time
OutOfSync(entry, schedule) ==
    entry.minute # schedule.pre_minute \/ entry.hour # schedule.pre_hour

NeedsInstallMutant(entry, schedule) ==
    entry = NoEntry \/ (entry.tag = "num" /\ OutOfSync(entry, schedule))

\* check_and_update_cronjob goes on to setup_cronjob
NeedsInstall(entry, schedule) ==
    entry # NoEntry /\ entry.tag = "num" /\ OutOfSync(entry, schedule)

\* check_and_update_cronjob (syncIfNeeded).  o.getB: the backup-schedule
\* fetch; o.listOk: 'crontab -l' exited 0 without raising; o.inst: the
\* outcomes of the setup_cronjob it may call.  int() of a non-integer
\* minute or hour field raises ValueError, which nothing here catches.
check_and_update_cronjob(cron, bcfg, o) ==
    LET schedule == get_backup_schedule(api_config_get(bcfg, EmptyBackup, o.getB))
        getLog == <<Req("get", "os/backup/auto-backup", o.getB)>>
        current_cron == get_current_cron_entry(cron, o.listOk)
        inst == setup_cronjob(cron, bcfg, o.inst)
        none == [cron |-> cron, log |-> getLog, writes |-> 0, raised |-> FALSE,
                 schedule |-> schedule, entry |-> current_cron,
                 installed |-> NoSchedule, written |-> FALSE]
    IN IF current_cron # NoEntry /\ current_cron.tag = "bad"
       THEN [none EXCEPT !.raised = TRUE]
       ELSE IF NeedsInstall(current_cron, schedule)
       THEN [cron |-> inst.cron, log |-> getLog \o inst.log, writes |-> inst.writes,
             raised |-> FALSE, schedule |-> schedule, entry |-> current_cron,
             installed |-> inst.schedule,
             written |-> o.inst.list = "ok" /\ o.inst.write = "ok"]
       ELSE none

SyncOracles ==
    {[getB |-> g, listOk |-> l, inst |-> i] :
        g \in BOOLEAN, l \in BOOLEAN, i \in InstallOracles \cup {NoInstall}}

\* outcomes are drawn only for the subprocesses and requests that run
SyncCanonical(cron, bcfg, o) ==
    LET schedule == get_backup_schedule(api_config_get(bcfg, EmptyBackup, o.getB))
        current_cron == get_current_cron_entry(cron, o.listOk)
    IN /\ (o.inst = NoInstall) <=> ~NeedsInstall(current_cron, schedule)
       \* a failed listing of a crontab without a matching line returns
       \* the same None as a successful one
       /\ Matching(cron) = <<>> => o.listOk

\* --------------------------------------------------- check toggle controller
ToggleOracles == [login : BOOLEAN, get : BOOLEAN, put : BOOLEAN, apply : BOOLEAN]

AllAccepted == [login |-> TRUE, get |-> TRUE, put |-> TRUE, apply |-> TRUE]

ToggleCanonical(o, envCreds, creds, reached) ==
    IF ~reached THEN o = AllAccepted
    ELSE /\ ~needs_login(envCreds, creds) => o.login
         /\ ~o.login => (o.get /\ o.put /\ o.apply)
         /\ ~o.put => o.apply

IgnoreChecks(cfg) == IF cfg.hasIgn THEN cfg.ignore ELSE <<>>

AddCheckMutant(ignore_checks) == Append(ignore_checks, check_name)

\* disable_check: append the identifier when it is absent
AddCheck(ignore_checks) ==
    IF ~InSeq(check_name, ignore_checks)
    THEN Append(ignore_checks, check_name)
    ELSE ignore_checks

\* enable_check: list.remove when present
RemoveCheck(ignore_checks) ==
    IF InSeq(check_name, ignore_checks)
    THEN ListRemove(ignore_checks, check_name)
    ELSE ignore_checks

\* the payload disable_check puts
DisabledConfig(current_config) ==
    HealthCfg(current_config.extra, TRUE, AddCheck(IgnoreChecks(current_config)))

\* the payload enable_check puts: an empty list is dropped from the payload
EnabledConfig(current_config) ==
    LET ignore_checks == RemoveCheck(IgnoreChecks(current_config))
    IN IF ignore_checks # <<>>
       THEN HealthCfg(current_config.extra, TRUE, ignore_checks)
       ELSE HealthCfg(current_config.extra, FALSE, <<>>)

PutApplyLogMutant(cat, putOk, applyOk) ==
    <<Req("put", cat, putOk), Req("apply", "-", applyOk)>>

\* api_config_put(...) and api_config_apply(): 'and' skips the apply when
\* the put failed
PutApplyLog(cat, putOk, applyOk) ==
    <<Req("put", cat, putOk)>> \o
    (IF putOk THEN <<Req("apply", "-", applyOk)>> ELSE <<>>)

\* the part of disable_check / enable_check after the cron sync:
\* login, fetch os/health, edit the list, put and apply
toggle(mode, health, envCreds, creds, o) ==
    LET login == api_login(envCreds, creds, o.login)
        current_config == api_config_get(health, EmptyHealth, o.get)
        new_config == IF mode = "disable" THEN DisabledConfig(current_config)
                      ELSE EnabledConfig(current_config)
    IN IF ~login.ok
       THEN [health |-> health, log |-> login.log, ok |-> FALSE]
       ELSE [health |-> IF o.put THEN new_config ELSE health,
             log |-> login.log \o <<Req("get", "os/health", o.get)>>
                     \o PutApplyLog("os/health", o.put, o.apply),
             ok |-> o.put /\ o.apply]

\* disable_check / enable_check (after the optional wait): cron sync first,
\* then the toggle.  result: "true", "false" or "raised".
toggle_check(mode, health, cron, bcfg, envCreds, creds, so, to) ==
    LET sync == check_and_update_cronjob(cron, bcfg, so)
        t == toggle(mode, health, envCreds, creds, to)
    IN IF sync.raised
       THEN [health |-> health, cron |-> sync.cron, log |-> sync.log,
             writes |-> sync.writes, sync |-> sync, result |-> "raised"]
       ELSE [health |-> t.health, cron |-> sync.cron, log |-> sync.log \o t.log,
             writes |-> sync.writes, sync |-> sync,
             result |-> IF t.ok THEN "true" ELSE "false"]

disable_check(health, cron, bcfg, envCreds, creds, so, to) ==
    toggle_check("disable", health, cron, bcfg, envCreds, creds, so, to)

enable_check(health, cron, bcfg, envCreds, creds, so, to) ==
    toggle_check("enable", health, cron, bcfg, envCreds, creds, so, to)


\* ------------------------------------------------------------- orchestrator
\* setup_post_backup: login, then put and apply the hook
setup_post_backup(pb, envCreds, creds, o) ==
    LET login == api_login(envCreds, creds, o.login)
    IN IF ~login.ok
       THEN [pb |-> pb, log |-> login.log, ok |-> FALSE]
       ELSE [pb |-> IF o.put THEN "hook" ELSE pb,
             log |-> login.log \o PutApplyLog("os/backup/post-backup", o.put, o.apply),
             ok |-> o.put /\ o.apply]

HookOracles == [login : BOOLEAN, put : BOOLEAN, apply : BOOLEAN]

HookCanonical(o, envCreds, creds) ==
    /\ ~needs_login(envCreds, creds) => o.login
    /\ ~o.login => (o.put /\ o.apply)
    /\ ~o.put => o.apply

\* prompt_credentials.  o: "interrupt" (Ctrl-C at a prompt), "mismatch",
\* "empty", "loginfail" (test_login), "storefail" (store_credentials
\* could not open the file), "stored".
PromptOutcomes ==
    {"interrupt", "mismatch", "empty", "loginfail", "storefail", "stored"}

prompt_credentials(creds, o) ==
    [creds |-> IF o = "stored" THEN "valid" ELSE creds,
     log |-> CASE o \in {"storefail", "stored"} -> <<Req("login", "-", TRUE)>>
               [] o = "loginfail" -> <<Req("login", "-", FALSE)>>
               [] OTHER -> <<>>,
     result |-> CASE o = "stored" -> "true"
                  [] o = "interrupt" -> "interrupted"
                  [] OTHER -> "false"]

\* cleanup, first part: cron removal (best effort) and post-backup
\* clearing: put and apply are both called, whatever the put returned.
cleanup_head(cron, pb, envCreds, creds, o) ==
    LET login == api_login(envCreds, creds, o.login)
    IN [cron |-> IF o.list = "ok" /\ o.write = "ok" THEN NotMatching(cron) ELSE cron,
        writes |-> IF o.list = "ok" THEN 1 ELSE 0,
        written |-> o.list = "ok" /\ o.write = "ok",
        pb |-> IF login.ok /\ o.put THEN "empty" ELSE pb,
        log |-> login.log \o
                (IF login.ok
                 THEN <<Req("put", "os/backup/post-backup", o.put), Req("apply", "-", o.apply)>>
                 ELSE <<>>)]

CleanupOracles ==
    [list : {"ok", "nonzero", "raise"}, write : {"ok", "nonzero", "raise", "none"},
     login : BOOLEAN, put : BOOLEAN, apply : BOOLEAN]

CleanupCanonical(o, envCreds, creds) ==
    /\ (o.list = "ok") <=> (o.write # "none")
    /\ ~needs_login(envCreds, creds) => o.login
    /\ ~o.login => (o.put /\ o.apply)

\* what show_status prints, by section ("none": the section's data was not
\* printed)
Report(health, creds, cron, hook) ==
    [health |-> health, creds |-> creds, cron |-> cron, hook |-> hook]

NoReport == Report("none", "none", "none", "none")

\* show_status.  Raises ValueError on a matched line whose minute or hour
\* field is no integer.
show_status(h, cron, bcfg, pb, envCreds, creds, o) ==
    LET login == api_login(envCreds, creds, o.login)
        current_health == api_config_get(h, EmptyHealth, o.getH)
        health == IF ~login.ok THEN "none"
                  ELSE IF InSeq(check_name, IgnoreChecks(current_health))
                       THEN "DISABLED" ELSE "ENABLED"
        auth == IF creds # "absent" THEN "file"
                ELSE IF envCreds THEN "env" ELSE "nocreds"
        schedule == get_backup_schedule(api_config_get(bcfg, EmptyBackup, o.getB))
        current_cron == get_current_cron_entry(cron, o.listOk)
        raised == current_cron # NoEntry /\ current_cron.tag = "bad"
        cronSec == IF current_cron = NoEntry THEN "notconfigured"
                   ELSE IF current_cron.tag = "short" THEN "entry"
                   ELSE IF OutOfSync(current_cron, schedule) THEN "outofsync"
                   ELSE "insync"
        hook == IF o.getPB /\ pb = "hook" THEN "configured" ELSE "notconfigured"
        log1 == login.log \o
                (IF login.ok THEN <<Req("get", "os/health", o.getH)>> ELSE <<>>) \o
                <<Req("get", "os/backup/auto-backup", o.getB)>>
    IN IF raised
       THEN [report |-> Report(health, auth, "none", "none"), log |-> log1,
             raised |-> TRUE]
       ELSE [report |-> Report(health, auth, cronSec, hook),
             log |-> Append(log1, Req("get", "os/backup/post-backup", o.getPB)),
             raised |-> FALSE]

StatusOracles ==
    [login : BOOLEAN, getH : BOOLEAN, getB : BOOLEAN, listOk : BOOLEAN, getPB : BOOLEAN]

StatusCanonical(o, cron, envCreds, creds) ==
    LET current_cron == get_current_cron_entry(cron, o.listOk)
    IN /\ ~needs_login(envCreds, creds) => o.login
       /\ ~o.login => o.getH
       /\ (current_cron # NoEntry /\ current_cron.tag = "bad") => o.getPB

\* sys.exit codes of main
ExitOk == 0
ExitFail == 1
ExitInterrupt == 130
NotExited == 0 - 1

\* main: sys.exit(0 if success else 1); KeyboardInterrupt -> 130,
\* any other exception -> 1
ExitCode(result) ==
    CASE result = "true" -> ExitOk
      [] result = "interrupted" -> ExitInterrupt
      [] OTHER -> ExitFail


\* ------------------------------------------------------------------- state
VARIABLES
    healthCfg,    \* remote os/health
    backupCfg,    \* remote os/backup/auto-backup
    postBackup,   \* remote os/backup/post-backup: "empty" (no command) or "hook"
    crontab,      \* the user's crontab, a sequence of lines
    credsFile,    \* .fmos_api_creds: "absent" or "valid"
    pc,           \* position of the running process: "idle", a step, "done"
    run,          \* what the running (or just finished) process did
    lastToggle,   \* the run just before this one: "disabled" (a disable the
                  \* API accepted), "enabled" (such an enable, no wait), "none"
    runs          \* invocations that have exited

vars ==
    <<healthCfg, backupCfg, postBackup, crontab, credsFile, pc, run, lastToggle, runs>>

\* what check_and_update_cronjob saw and did
SyncObs(sy) ==
    [ran |-> TRUE, schedule |-> sy.schedule, entry |-> sy.entry,
     installed |-> sy.installed, written |-> sy.written, raised |-> sy.raised]

NoSync ==
    [ran |-> FALSE, schedule |-> NoSchedule, entry |-> NoEntry,
     installed |-> NoSchedule, written |-> FALSE, raised |-> FALSE]

\* a process that has not done anything yet
NewRun(cmd, noWait, envCreds) ==
    [cmd |-> cmd, noWait |-> noWait, envCreds |-> envCreds, step |-> "none",
     log |-> <<>>, cronWrites |-> 0, sync |-> NoSync, result |-> "none",
     exitCode |-> NotExited, waited |-> FALSE,
     report |-> NoReport]

NoRun == NewRun("none", FALSE, FALSE)

\* the remote contents and crontabs a run may find
InitLists == SeqsUpTo(CheckIds, MaxList)

InitHealth ==
    {HealthCfg(1, TRUE, l) : l \in InitLists} \cup {HealthCfg(1, FALSE, <<>>)}

InitBackup == BackupCfg(FALSE, 0, 3, "weekly")

InitCrontabs ==
    {<<>>,
     <<OtherLine("a")>>,
     <<OtherLine("a"), OwnLine(0, 1), OtherLine("b")>>,
     <<BadLine, OtherLine("a")>>,
     <<ShortLine>>,
     <<OwnLine(58, 23), OtherLine("a"), OwnLine(0, 1)>>}

InitCommon ==
    /\ backupCfg = InitBackup
    /\ postBackup = "empty"
    /\ credsFile \in {"absent", "valid"}
    /\ pc = "idle"
    /\ run = NoRun
    /\ lastToggle = "none"
    /\ runs = 0

\* a fresh host (no crontab); the remote list is the API's: any content
Init ==
    /\ healthCfg \in InitHealth
    /\ crontab = <<>>
    /\ InitCommon

\* the same, the remote list as this program alone leaves it
InitOwned ==
    /\ healthCfg \in {h \in InitHealth : Count(check_name, h.ignore) <= 1}
    /\ crontab = <<>>
    /\ InitCommon

\* a host with a crontab of its own
InitCron ==
    /\ healthCfg = HealthCfg(1, TRUE, <<OtherCheck>>)
    /\ crontab \in InitCrontabs
    /\ InitCommon
    /\ credsFile = "valid"

\* ----------------------------------------------------------------- actions
\* cron sync and toggle of a disable_check / enable_check call
RunToggle(mode, r0, nextPc, alwaysOk) ==
    \E so \in SyncOracles :
      /\ SyncCanonical(crontab, backupCfg, so)
      /\ \E to \in ToggleOracles :
           LET r == toggle_check(mode, healthCfg, crontab, backupCfg,
                                 r0.envCreds, credsFile, so, to)
               success == IF alwaysOk /\ r.result # "raised" THEN "true" ELSE r.result
           IN /\ ToggleCanonical(to, r0.envCreds, credsFile, ~r.sync.raised)
              /\ healthCfg' = r.health
              /\ crontab' = r.cron
              /\ pc' = nextPc
              /\ run' = [r0 EXCEPT !.step = mode, !.log = r.log,
                                   !.cronWrites = r.writes,
                                   !.sync = SyncObs(r.sync),
                                   !.result = r.result,
                                   !.exitCode = ExitCode(success)]
              /\ UNCHANGED <<backupCfg, postBackup, credsFile>>

\* main: 'disable'
Disable ==
    /\ pc = "idle"
    /\ runs < MaxRuns
    /\ UNCHANGED <<runs, lastToggle>>
    /\ \E e \in BOOLEAN : RunToggle("disable", NewRun("disable", FALSE, e), "done", FALSE)

\* main: 'enable'; time.sleep(900) unless no_wait, Ctrl-C during the sleep
Enable ==
    /\ pc = "idle"
    /\ runs < MaxRuns
    /\ UNCHANGED <<runs, lastToggle>>
    /\ \E e \in BOOLEAN, w \in {"skipped", "slept", "interrupted"} :
         LET r0 == NewRun("enable", w = "skipped", e)
         IN IF w = "interrupted"
            THEN /\ pc' = "done"
                 /\ run' = [r0 EXCEPT !.result = "interrupted",
                                      !.exitCode = ExitInterrupt]
                 /\ UNCHANGED <<healthCfg, backupCfg, postBackup, crontab, credsFile>>
            ELSE RunToggle("enable", [r0 EXCEPT !.waited = (w = "slept")], "done", FALSE)

\* main: 'cleanup': cron removal and post-backup clearing
CleanupHead ==
    /\ pc = "idle"
    /\ runs < MaxRuns
    /\ UNCHANGED <<runs, lastToggle>>
    /\ \E e \in BOOLEAN, o \in CleanupOracles :
         LET r == cleanup_head(crontab, postBackup, e, credsFile, o)
         IN /\ CleanupCanonical(o, e, credsFile)
            /\ crontab' = r.cron
            /\ postBackup' = r.pb
            /\ pc' = "cleanup_unlink"
            /\ run' = [NewRun("cleanup", FALSE, e) EXCEPT
                          !.step = "cleanup_head", !.log = r.log,
                          !.cronWrites = r.writes,
                          !.sync = [NoSync EXCEPT !.written = r.written]]
            /\ UNCHANGED <<healthCfg, backupCfg, credsFile>>

\* cleanup: creds_file.unlink() when the file exists; an OSError is not
\* caught in cleanup and ends the run in main's handler
CleanupUnlink ==
    /\ pc = "cleanup_unlink"
    /\ \E unlinkOk \in (IF credsFile = "absent" THEN {TRUE} ELSE BOOLEAN) :
         /\ credsFile' = IF unlinkOk THEN "absent" ELSE credsFile
         /\ pc' = IF unlinkOk THEN "cleanup_enable" ELSE "done"
         /\ run' = [NewRun("cleanup", FALSE, run.envCreds) EXCEPT
                       !.step = "cleanup_unlink",
                       !.result = IF unlinkOk THEN "none" ELSE "raised",
                       !.exitCode = IF unlinkOk THEN NotExited ELSE ExitFail]
    /\ UNCHANGED <<healthCfg, backupCfg, postBackup, crontab, lastToggle, runs>>

\* cleanup: self.no_wait = True; self.enable_check(); main: success = True
CleanupEnable ==
    /\ pc = "cleanup_enable"
    /\ UNCHANGED <<runs, lastToggle>>
    /\ RunToggle("enable", [run EXCEPT !.noWait = TRUE], "done", TRUE)

\* main: 'status'
Status ==
    /\ pc = "idle"
    /\ runs < MaxRuns
    /\ UNCHANGED <<runs, lastToggle>>
    /\ \E e \in BOOLEAN, o \in StatusOracles :
         LET r == show_status(healthCfg, crontab, backupCfg, postBackup, e, credsFile, o)
         IN /\ StatusCanonical(o, crontab, e, credsFile)
            /\ pc' = "done"
            /\ run' = [NewRun("status", FALSE, e) EXCEPT
                          !.step = "status", !.log = r.log, !.report = r.report,
                          !.result = IF r.raised THEN "raised" ELSE "true",
                          !.exitCode = IF r.raised THEN ExitFail ELSE ExitOk]
            /\ UNCHANGED <<healthCfg, backupCfg, postBackup, crontab, credsFile>>

\* main: 'credentials'
Credentials ==
    /\ pc = "idle"
    /\ runs < MaxRuns
    /\ UNCHANGED <<runs, lastToggle>>
    /\ \E e \in BOOLEAN, o \in PromptOutcomes :
         LET r == prompt_credentials(credsFile, o)
         IN /\ credsFile' = r.creds
            /\ pc' = "done"
            /\ run' = [NewRun("credentials", FALSE, e) EXCEPT
                          !.step = "prompt", !.log = r.log, !.result = r.result,
                          !.exitCode = ExitCode(r.result)]
            /\ UNCHANGED <<healthCfg, backupCfg, postBackup, crontab>>

\* main: 'setup', credentials and post-backup hook
SetupHook ==
    /\ pc = "idle"
    /\ runs < MaxRuns
    /\ UNCHANGED <<runs, lastToggle>>
    /\ \E e \in BOOLEAN,
          p \in (IF credsFile = "absent" THEN PromptOutcomes ELSE {"stored"}),
          o \in HookOracles :
         LET c == IF credsFile = "absent" THEN prompt_credentials(credsFile, p)
                  ELSE [creds |-> credsFile, log |-> <<>>, result |-> "true"]
             h == setup_post_backup(postBackup, e, c.creds, o)
             r0 == NewRun("setup", FALSE, e)
         IN IF c.result # "true"
            THEN /\ o = [login |-> TRUE, put |-> TRUE, apply |-> TRUE]
                 /\ credsFile' = c.creds
                 /\ pc' = "done"
                 /\ run' = [r0 EXCEPT !.step = "prompt", !.log = c.log,
                                      !.result = c.result,
                                      !.exitCode = ExitCode(c.result)]
                 /\ UNCHANGED <<healthCfg, backupCfg, postBackup, crontab>>
            ELSE /\ HookCanonical(o, e, c.creds)
                 /\ credsFile' = c.creds
                 /\ postBackup' = h.pb
                 /\ pc' = IF h.ok THEN "setup_cron" ELSE "done"
                 /\ run' = [r0 EXCEPT !.step = "setup_post_backup", !.log = h.log,
                                      !.result = IF h.ok THEN "none" ELSE "false",
                                      !.exitCode = IF h.ok THEN NotExited ELSE ExitFail]
                 /\ UNCHANGED <<healthCfg, backupCfg, crontab>>

\* setup: setup_cronjob
SetupCron ==
    /\ pc = "setup_cron"
    /\ \E o \in InstallOracles :
         LET r == setup_cronjob(crontab, backupCfg, o)
         IN /\ crontab' = r.cron
            /\ pc' = IF r.ok THEN "setup_status" ELSE "done"
            /\ run' = [run EXCEPT !.step = "setup_cronjob", !.log = r.log,
                                  !.cronWrites = r.writes,
                                  !.sync = [NoSync EXCEPT !.installed = r.schedule,
                                                          !.written = (o.list = "ok" /\ o.write = "ok")],
                                  !.result = IF r.ok THEN "none" ELSE "false",
                                  !.exitCode = IF r.ok THEN NotExited ELSE ExitFail]
            /\ UNCHANGED <<healthCfg, backupCfg, postBackup, credsFile, lastToggle, runs>>

\* setup: show_status, return True
SetupStatus ==
    /\ pc = "setup_status"
    /\ \E o \in StatusOracles :
         LET r == show_status(healthCfg, crontab, backupCfg, postBackup,
                              run.envCreds, credsFile, o)
         IN /\ StatusCanonical(o, crontab, run.envCreds, credsFile)
            /\ pc' = "done"
            /\ run' = [run EXCEPT !.step = "status", !.log = r.log,
                                  !.report = r.report,
                                  !.result = IF r.raised THEN "raised" ELSE "true",
                                  !.exitCode = IF r.raised THEN ExitFail ELSE ExitOk]
            /\ UNCHANGED <<healthCfg, backupCfg, postBackup, crontab, credsFile, lastToggle, runs>>

\* every request of the run was accepted
AllOk(log) == \A i \in 1..Len(log) : log[i].ok

\* the process has exited; the next invocation is a new process
Return ==
    /\ pc = "done"
    /\ pc' = "idle"
    /\ runs' = runs + 1
    /\ lastToggle' =
         IF run.cmd = "disable" /\ run.result = "true" /\ AllOk(run.log)
         THEN "disabled"
         ELSE IF run.cmd = "enable" /\ run.noWait /\ run.result = "true"
                 /\ AllOk(run.log)
              THEN "enabled" ELSE "none"
    /\ run' = NoRun
    /\ UNCHANGED <<healthCfg, backupCfg, postBackup, crontab, credsFile>>

Next ==
    \/ Disable
    \/ Enable
    \/ CleanupHead
    \/ CleanupUnlink
    \/ CleanupEnable
    \/ Status
    \/ Credentials
    \/ SetupHook
    \/ SetupCron
    \/ SetupStatus
    \/ Return

Spec == Init /\ [][Next]_vars

SpecOwned == InitOwned /\ [][Next]_vars

SpecCron == InitCron /\ [][Next]_vars


\* ------------------------------------------------ schedule calculator alone
Hours == 0..LastHour
Minutes == 0..(MinutesPerHour - 1)

\* every os/backup/auto-backup payload: {} and each combination of present
\* and absent fields
AllBackupCfgs ==
    {EmptyBackup} \cup
    {BackupCfg(FALSE, h, m, sch) :
        h \in Hours \cup {Absent}, m \in Minutes \cup {Absent},
        sch \in {"absent", "daily", "weekly"}}

InitSchedule ==
    /\ backupCfg \in AllBackupCfgs
    /\ healthCfg = EmptyHealth
    /\ crontab = <<>>
    /\ postBackup = "empty"
    /\ credsFile = "absent"
    /\ pc = "idle"
    /\ run = NoRun
    /\ lastToggle = "none"
    /\ runs = 0

\* one call of get_backup_schedule: the fetch, then the calculation
GetBackupSchedule ==
    /\ pc = "idle"
    /\ \E ok \in BOOLEAN :
         run' = [NewRun("get_backup_schedule", FALSE, FALSE) EXCEPT
                    !.step = "get_backup_schedule",
                    !.log = <<Req("get", "os/backup/auto-backup", ok)>>,
                    !.sync = [NoSync EXCEPT !.schedule =
                                get_backup_schedule(
                                    api_config_get(backupCfg, EmptyBackup, ok))]]
    /\ pc' = "done"
    /\ UNCHANGED <<healthCfg, backupCfg, postBackup, crontab, credsFile, lastToggle, runs>>

NextSchedule == GetBackupSchedule

SpecSchedule == InitSchedule /\ [][NextSchedule]_vars


\* ================================================================== claims
Finished == pc = "done"

\* the step just finished was the body of disable_check / enable_check
ToggleDone == Finished /\ run.step \in {"disable", "enable"}

Disabled == InSeq(check_name, healthCfg.ignore)

\* C1: in every operation that mutates remote configuration, config-apply
\* is issued right after a config-put if and only if that put succeeded.
ApplyIffPutSucceeded ==
    \A i \in 1..Len(run.log) :
        run.log[i].req = "put" =>
            (run.log[i].ok <=>
                (i < Len(run.log) /\ run.log[i + 1].req = "apply"))

\* C2: through any sequence of disable and enable calls the remote list
\* holds the identifier at most once; a call the API accepts succeeds
\* whether or not the identifier was already there (or already gone), and
\* leaves it exactly once after disable and absent after enable.
IgnoreListIdempotent ==
    /\ Count(check_name, healthCfg.ignore) <= 1
    /\ (ToggleDone /\ run.result = "true" /\ run.cmd = "disable")
          => Count(check_name, healthCfg.ignore) = 1
    /\ (ToggleDone /\ run.result = "true" /\ run.step = "enable")
          => Count(check_name, healthCfg.ignore) = 0
    /\ (ToggleDone /\ AllOk(run.log)) => run.result = "true"

\* C2 witness: a disable repeated right after an accepted disable succeeded
\* and left the identifier once, after other identifiers
RepeatedDisable ==
    /\ ToggleDone /\ run.cmd = "disable" /\ run.result = "true"
    /\ lastToggle = "disabled"
    /\ Count(check_name, healthCfg.ignore) = 1
    /\ Len(healthCfg.ignore) > 1

\* C3: with the API accepting the requests, status right after disable
\* reports DISABLED and status right after enable (no wait) reports ENABLED,
\* whatever the remote list held before.
StatusAfterToggle ==
    (Finished /\ run.cmd = "status" /\ AllOk(run.log)) =>
        /\ lastToggle = "disabled" => run.report.health = "DISABLED"
        /\ lastToggle = "enabled" => run.report.health = "ENABLED"

\* C4: when cleanup finishes, the identifier is absent from the remote list,
\* the credential file does not exist, and the enable step did not wait.
CleanupLeavesEnabled ==
    (Finished /\ run.cmd = "cleanup" /\ run.step = "enable"
       /\ run.result # "raised") =>
        /\ ~Disabled
        /\ credsFile = "absent"
        /\ ~run.waited

\* C5: a cron sync (in disable, enable, cleanup's enable) that finds no
\* matching entry, or whose listing fails, issues no crontab write and
\* leaves the crontab as it was.
SyncNeverCreates ==
    [][(pc' = "done" /\ pc # "done"
          /\ run'.step \in {"disable", "enable"}
          /\ run'.sync.ran /\ run'.sync.entry = NoEntry)
        => (crontab' = crontab /\ run'.cronWrites = 0)]_vars

\* C5 witness: a sync found no matching entry in a crontab that has other
\* lines, and wrote nothing
SyncFoundNoEntry ==
    /\ ToggleDone /\ run.sync.ran /\ run.sync.entry = NoEntry
    /\ run.cronWrites = 0
    /\ crontab # <<>>
    /\ Matching(crontab) = <<>>

\* C6: a sync that finds a matching entry off the computed pre-backup time
\* performs exactly one rewrite, after which exactly one line matches and
\* its minute and hour are those of the schedule the sync computed (stated
\* here for the runs whose crontab commands all succeeded).
SyncRewritesToComputed ==
    (ToggleDone /\ run.sync.ran /\ run.sync.entry # NoEntry
       /\ run.sync.entry.tag = "num"
       /\ OutOfSync(run.sync.entry, run.sync.schedule)
       /\ run.sync.written) =>
        /\ run.cronWrites = 1
        /\ Len(Matching(crontab)) = 1
        /\ ~OutOfSync(Matching(crontab)[1], run.sync.schedule)

\* the reference pre-backup time: minutes since midnight minus the offset,
\* modulo one day
RefPreBackup(hour, minute) ==
    LET day == (LastHour + 1) * MinutesPerHour
        t == (hour * MinutesPerHour + minute - PreBackupOffset + day) % day
    IN [hour |-> t \div MinutesPerHour, minute |-> t % MinutesPerHour]

\* C7: get_backup_schedule returns hour, minute and schedule of the payload
\* with the defaults 23, 48 and 'daily' for each absent field (all three for
\* an empty or missing payload), and the pre-backup time 5 minutes earlier
\* modulo 24 hours, within 0..23 and 0..59.
ScheduleIsReference ==
    (Finished /\ run.step = "get_backup_schedule") =>
        LET payload == IF run.log[1].ok THEN backupCfg ELSE EmptyBackup
            hour == IF payload.hour = Absent THEN DefaultHour ELSE payload.hour
            minute == IF payload.minute = Absent THEN DefaultMinute ELSE payload.minute
            s == run.sync.schedule
        IN /\ s.hour = hour
           /\ s.minute = minute
           /\ s.schedule = (IF payload.schedule = "absent" THEN "daily"
                            ELSE payload.schedule)
           /\ s.pre_hour = RefPreBackup(hour, minute).hour
           /\ s.pre_minute = RefPreBackup(hour, minute).minute
           /\ s.pre_hour \in Hours
           /\ s.pre_minute \in Minutes

\* C7 witness: 00:03 gives 23:58, and a payload with only a minute uses the
\* default hour
ScheduleWrapsAtMidnight ==
    /\ Finished /\ run.step = "get_backup_schedule" /\ run.log[1].ok
    /\ backupCfg.hour = 0 /\ backupCfg.minute = 3
    /\ run.sync.schedule.pre_hour = LastHour
    /\ run.sync.schedule.pre_minute = 58

\* C8: status never fails: whatever its login, fetches and crontab listing
\* return, show_status completes and the process exits 0.
StatusNeverFails ==
    (Finished /\ run.cmd = "status") =>
        (run.result = "true" /\ run.exitCode = ExitOk)

\* C9: the exit code is 0 exactly when the command's work succeeded, 130
\* exactly when it was interrupted, and 1 otherwise.
ExitCodeReflectsOutcome ==
    Finished =>
        /\ run.exitCode = ExitOk <=> run.result = "true"
        /\ run.exitCode = ExitInterrupt <=> run.result = "interrupted"
        /\ run.exitCode \in {ExitOk, ExitFail, ExitInterrupt}

\* the requests of the toggle part of the call (the cron sync's fetches of
\* the backup schedule come before the login)
ToggleLog == SelectSeq(run.log, LAMBDA r : r.cat # "os/backup/auto-backup")

InstallStep == pc = "setup_cron" /\ pc' # pc

CleanupCronStep == pc = "idle" /\ run'.step = "cleanup_head"

ToggleStep == pc # "done" /\ pc' = "done" /\ run'.step \in {"disable", "enable"}

\* C11: setup_cronjob returns failure whenever its crontab listing or its
\* crontab write fails (raises, times out or exits non-zero), so setup does
\* not go on as if the entry were installed.
InstallFailsOnSubprocessError ==
    (run.cmd = "setup" /\ run.step = "setup_cronjob" /\ ~run.sync.written) =>
        (run.result = "false" /\ pc = "done")

\* C12: setup_cronjob and cleanup's cron removal keep every line that is
\* not the tool's own entry, unmodified and in order, in the crontab they
\* write back; after a written install exactly one line matches and it is
\* the last one, after a written removal none matches.
OnlyOwnEntryChanged ==
    [][(InstallStep \/ CleanupCronStep) =>
         /\ NotMatching(crontab') = NotMatching(crontab)
         /\ (InstallStep /\ run'.sync.written) =>
               /\ Len(Matching(crontab')) = 1
               /\ crontab'[Len(crontab')].own
         /\ (CleanupCronStep /\ run'.sync.written) =>
               Matching(crontab') = <<>>]_vars

\* the identifiers of a remote list other than the fixed one, in order
OtherChecks(cfg) == SelectSeq(cfg.ignore, LAMBDA c : c # check_name)

\* C13: a disable_check / enable_check call, whatever its fetch of
\* os/health returned, keeps every other identifier of the remote list in
\* order and every other key of the health config as it was.
OnlyCheckIdChanged ==
    [][ToggleStep =>
         /\ OtherChecks(healthCfg') = OtherChecks(healthCfg)
         /\ healthCfg'.extra = healthCfg.extra]_vars

\* the first matching line of a crontab carries the remote backup time
\* minus five minutes
InSyncWithRemote(cron) ==
    /\ Matching(cron) # <<>>
    /\ Head(Matching(cron)).tag = "num"
    /\ ~OutOfSync(Head(Matching(cron)), get_backup_schedule(backupCfg))

\* C14: a matching entry already at the remote backup time minus five
\* minutes is still at that time after a disable_check / enable_check call,
\* whatever the backup-schedule fetches of the cron sync returned.
InSyncEntryKept ==
    [][(ToggleStep /\ InSyncWithRemote(crontab)) => InSyncWithRemote(crontab')]_vars

====
